---------------------------- MODULE Spec2Model ----------------------------
(***************************************************************************)
(* Warping-path pipeline of PianoConcertoAccompaniment:                    *)
(*   system_utils.filter_vertical_and_horizontal_segments                  *)
(*   sonify_tools.get_preprocessed_wp / sonifyWithTSMSync / ..._batch      *)
(*   eval_tools.calcAlignErrors_single / calcAlignErrors_batch             *)
(*                                                                         *)
(* A 2xN numpy array is modelled by the sequence of its N columns, each    *)
(* column a pair <<row0, row1>>.  Timestamps are integers: the code only   *)
(* compares them for equality, copies them and multiplies them by a        *)
(* positive hop length, all of which integers carry faithfully.            *)
(***************************************************************************)
EXTENDS Integers, Sequences, FiniteSets

(***************************************************************************)
(* Bounds of the model.                                                    *)
(***************************************************************************)
MaxLen == 4          \* longest arbitrary path stored in a .npy file
MaxCoord == 1        \* arbitrary paths take coordinates in 0..MaxCoord
MaxMonoLen == 5      \* longest nondecreasing path
MaxMonoCoord == 3    \* nondecreasing paths take coordinates in 0..MaxMonoCoord
MaxDownsample == 3   \* downsample factors 1..MaxDownsample
HopLen == 2          \* the hop length used when one is given
NumScenarios == 3    \* scenarios listed in scenarios.summary
Workers == 2         \* worker processes of Pool()
MaxRuns == 2         \* batch runs started in one behaviour

None == <<>>
Some(v) == <<v>>

Points(c) == (0..c) \X (0..c)
\* the nondecreasing sequences of length n over 0..c
NonDecr(n, c) == {s \in [1..n -> 0..c] : \A i \in 1..(n - 1) : s[i] <= s[i + 1]}

HopLens == {None, Some(HopLen)}
Downsamples == 1..MaxDownsample
Scenarios == 1..NumScenarios

(***************************************************************************)
(* Pure functions.  A result is [err, val]: err = "" on a normal return,   *)
(* the exception's name when the call raises.                              *)
(***************************************************************************)
Ok(v) == [err |-> "", val |-> v]
Raise(e) == [err |-> e, val |-> <<>>]

\* system_utils.py:207 with the test lost: every point is kept
KeepPointAlways(x, y, x_next, y_next) == TRUE

\* system_utils.py:207 with "and" slipped to "or"
KeepPointOr(x, y, x_next, y_next) == x # x_next \/ y # y_next

\* system_utils.py:207  if x != x_next and y != y_next
KeepPoint(x, y, x_next, y_next) == x # x_next /\ y # y_next

\* system_utils.py:199-208  for i in range(0, align.shape[1]-1), i 0-based
RECURSIVE FilterLoop(_, _, _)
FilterLoop(align, i, new_align) ==
    IF i >= Len(align) - 1 THEN new_align
    ELSE LET x == align[i + 1][1]
             y == align[i + 1][2]
             x_next == align[i + 2][1]
             y_next == align[i + 2][2]
         IN  FilterLoop(align, i + 1,
                        IF KeepPoint(x, y, x_next, y_next)
                        THEN Append(new_align, <<x, y>>)
                        ELSE new_align)

\* system_utils.py:188-211; align[0, -1] raises IndexError on a 2x0 array
filter_vertical_and_horizontal_segments(align) ==
    IF Len(align) = 0 THEN Raise("IndexError")
    ELSE Ok(Append(FilterLoop(align, 0, <<>>), align[Len(align)]))

\* sonify_tools.py:31-35  np.load, then wp * hop_len when hop_len is given
LoadWp(file, hop_len) ==
    IF hop_len = None THEN file
    ELSE [i \in 1..Len(file) |-> <<file[i][1] * hop_len[1], file[i][2] * hop_len[1]>>]

\* wp[:, 1:-1]: the columns strictly between the first and the last
Middle(wp) == IF Len(wp) <= 2 THEN <<>> ELSE SubSeq(wp, 2, Len(wp) - 1)

\* a stride that starts one interior point late
StrideLate(m, k) ==
    [j \in 1..(Len(m) \div k) |-> m[j * k]]

\* wp_middle[:, 0::downsample]: 0-based positions 0, k, 2k, ...
Stride(m, k) ==
    [j \in 1..((Len(m) + k - 1) \div k) |-> m[(j - 1) * k + 1]]

\* a downsampler that forgets the last column
HstackNoLast(first, middle, last) == <<first>> \o middle

\* sonify_tools.py:37  np.hstack((wp[:,0], wp_middle[:,0::downsample], wp[:,-1]))
Hstack(first, middle, last) == <<first>> \o middle \o <<last>>

\* sonify_tools.py:17-38; wp[:,0] raises IndexError on a 2x0 array
get_preprocessed_wp(file, downsample, hop_len) ==
    LET wp == LoadWp(file, hop_len)
    IN  IF Len(wp) = 0 THEN Raise("IndexError")
        ELSE Ok(Hstack(wp[1], Stride(Middle(wp), downsample), wp[Len(wp)]))

\* the path handed on as it is, rows not swapped
NoFlip(wp) == wp

\* np.flipud of a 2xN array: the two rows change places
flipud(wp) == [i \in 1..Len(wp) |-> <<wp[i][2], wp[i][1]>>]

Row0(wp) == [i \in 1..Len(wp) |-> wp[i][1]]
Row1(wp) == [i \in 1..Len(wp) |-> wp[i][2]]

(***************************************************************************)
(* State of one call on one alignment file.                                *)
(***************************************************************************)
VARIABLES
    align_file,    \* the 2xN array stored in the .npy file
    call,          \* the function called and its arguments
    ret,           \* its outcome: the exception raised, or the path returned
    wp,            \* sonifyWithTSMSync's local wp after line 108
    tsm_calls,     \* the paths handed to tsm_tools.tsmvar_hybrid
    interp_calls   \* the (xp, fp) sample rows handed to np.interp

pipe_vars == <<align_file, call, ret, wp, tsm_calls, interp_calls>>

VARIABLES
    fails,         \* scenarios whose sonifyWithTSMSync / calcAlignErrors_single raises
    runs,          \* batch runs started so far
    interrupts,    \* batch runs killed before they ended
    wav,           \* outdir/<id>.wav: "absent", "partial" (opened, not all written), "whole"
    son_pc,        \* sonifyWithTSMSync_batch: idle, pool, returned, raised, killed
    task,          \* the pool's task of each scenario
    son_calls,     \* calls of sonifyWithTSMSync per scenario, all runs
    errs_pkl,      \* out_dir/errs.pkl: its state and the keys of the pickled dict
    eval_pc,       \* calcAlignErrors_batch: idle, loop, save, returned, raised, killed
    eval_i,        \* the loop's position in getScenarioIds
    d,             \* keys of the dict d of the current run
    eval_calls     \* calls of calcAlignErrors_single per scenario, all runs

batch_vars == <<fails, runs, interrupts, wav, son_pc, task, son_calls,
                errs_pkl, eval_pc, eval_i, d, eval_calls>>
vars == <<pipe_vars, batch_vars>>

NoCall == [op |-> "none", downsample |-> 0, hop_len |-> None]

PipeStart ==
    /\ call = NoCall
    /\ ret = Ok(<<>>)
    /\ wp = <<>>
    /\ tsm_calls = <<>>
    /\ interp_calls = <<>>

\* system_utils.py:188-211
CallFilter ==
    /\ call.op = "none"
    /\ call' = [op |-> "filter", downsample |-> 0, hop_len |-> None]
    /\ ret' = filter_vertical_and_horizontal_segments(align_file)
    /\ UNCHANGED <<align_file, wp, tsm_calls, interp_calls, batch_vars>>

\* sonify_tools.py:17-38
CallGetPreprocessedWp(downsample, hop_len) ==
    /\ call.op = "none"
    /\ call' = [op |-> "get_preprocessed_wp", downsample |-> downsample,
                hop_len |-> hop_len]
    /\ ret' = get_preprocessed_wp(align_file, downsample, hop_len)
    /\ UNCHANGED <<align_file, wp, tsm_calls, interp_calls, batch_vars>>

\* sonify_tools.py:85-113; the audio itself (lb.load, mixing, sf.write) is
\* outside the path pipeline and returns no path
CallSonifyWithTSMSync(downsample, hop_len) ==
    /\ call.op = "none"
    /\ call' = [op |-> "sonifyWithTSMSync", downsample |-> downsample,
                hop_len |-> hop_len]
    /\ LET p == get_preprocessed_wp(align_file, downsample, hop_len)
           f == filter_vertical_and_horizontal_segments(p.val)
       IN  IF p.err # ""
           THEN /\ ret' = p
                /\ UNCHANGED <<wp, tsm_calls>>
           ELSE IF f.err # ""
           THEN /\ ret' = f
                /\ UNCHANGED <<wp, tsm_calls>>
           ELSE /\ wp' = f.val
                /\ tsm_calls' = Append(tsm_calls, flipud(f.val))
                /\ ret' = Ok(<<>>)
    /\ UNCHANGED <<align_file, interp_calls, batch_vars>>

\* eval_tools.py:68-88 with frames=False; np.interp raises ValueError on an
\* empty xp and answers from a single sample otherwise
CallCalcAlignErrorsSingle ==
    /\ call.op = "none"
    /\ call' = [op |-> "calcAlignErrors_single", downsample |-> 0, hop_len |-> None]
    /\ LET hypalign == align_file
       IN  IF Len(hypalign) = 0
           THEN /\ ret' = Raise("ValueError")
                /\ UNCHANGED interp_calls
           ELSE /\ ret' = Ok(<<>>)
                /\ interp_calls' = Append(interp_calls,
                       [xp |-> Row0(hypalign), fp |-> Row1(hypalign)])
    /\ UNCHANGED <<align_file, wp, tsm_calls, batch_vars>>

(***************************************************************************)
(* Batch drivers.  Scenario ids are 1..NumScenarios in the order of        *)
(* scenarios.summary.  fails holds the scenarios whose single call raises  *)
(* (hyp.npy or an audio/annotation file missing or malformed).  With the   *)
(* batch sizes modelled, Pool.starmap hands every task to a worker as a    *)
(* chunk of its own.                                                       *)
(***************************************************************************)

NoPkl == [state |-> "absent", keys |-> {}]

BatchStart ==
    /\ runs = 0
    /\ interrupts = 0
    /\ wav = [s \in Scenarios |-> "absent"]
    /\ son_pc = "idle"
    /\ task = [s \in Scenarios |-> "none"]
    /\ son_calls = [s \in Scenarios |-> 0]
    /\ errs_pkl = NoPkl
    /\ eval_pc = "idle"
    /\ eval_i = 0
    /\ d = {}
    /\ eval_calls = [s \in Scenarios |-> 0]

Ended(pc) == pc \in {"idle", "returned", "raised", "killed"}

\* a task that never looks at the output file
OutFileExistsNever(w, s) == FALSE

\* sonify_tools.py:121  if os.path.exists(out_file)
OutFileExists(w, s) == w[s] # "absent"

\* sonify_tools.py:139-146: the pool is created and every scenario queued
SonifyBatchStart ==
    /\ Ended(son_pc) /\ Ended(eval_pc)
    /\ runs < MaxRuns
    /\ runs' = runs + 1
    /\ son_pc' = "pool"
    /\ task' = [s \in Scenarios |-> "queued"]
    /\ UNCHANGED <<pipe_vars, fails, interrupts, wav, son_calls, errs_pkl, eval_pc, eval_i, d,
                   eval_calls>>

Busy == {s \in Scenarios : task[s] \in {"running", "writing"}}

\* sonify_tools.py:116-125: a free worker takes the task; skip when the file exists
TaskStart(s) ==
    /\ son_pc = "pool"
    /\ task[s] = "queued"
    /\ Cardinality(Busy) < Workers
    /\ IF OutFileExists(wav, s)
       THEN /\ task' = [task EXCEPT ![s] = "returned"]
            /\ UNCHANGED son_calls
       ELSE /\ task' = [task EXCEPT ![s] = "running"]
            /\ son_calls' = [son_calls EXCEPT ![s] = @ + 1]
    /\ UNCHANGED <<pipe_vars, fails, runs, interrupts, wav, son_pc, errs_pkl, eval_pc, eval_i, d,
                   eval_calls>>

\* sonify_tools.py:103-112: load, preprocess, time-scale, mix; the call raises for a
\* failing scenario, otherwise sf.write opens out_file
TaskCompute(s) ==
    /\ son_pc = "pool"
    /\ task[s] = "running"
    /\ IF s \in fails
       THEN /\ task' = [task EXCEPT ![s] = "raised"]
            /\ UNCHANGED wav
       ELSE /\ task' = [task EXCEPT ![s] = "writing"]
            /\ wav' = [wav EXCEPT ![s] = "partial"]
    /\ UNCHANGED <<pipe_vars, fails, runs, interrupts, son_pc, son_calls, errs_pkl, eval_pc,
                   eval_i, d, eval_calls>>

\* sonify_tools.py:112-113: sf.write has written every frame and closed the file
TaskWritten(s) ==
    /\ son_pc = "pool"
    /\ task[s] = "writing"
    /\ task' = [task EXCEPT ![s] = "returned"]
    /\ wav' = [wav EXCEPT ![s] = "whole"]
    /\ UNCHANGED <<pipe_vars, fails, runs, interrupts, son_pc, son_calls, errs_pkl, eval_pc,
                   eval_i, d, eval_calls>>

\* sonify_tools.py:145-146: starmap returns once every task has ended, and re-raises
\* a task's exception
SonifyBatchEnd ==
    /\ son_pc = "pool"
    /\ \A s \in Scenarios : task[s] \in {"returned", "raised"}
    /\ son_pc' = IF \E s \in Scenarios : task[s] = "raised" THEN "raised" ELSE "returned"
    /\ UNCHANGED <<pipe_vars, fails, runs, interrupts, wav, task, son_calls, errs_pkl, eval_pc,
                   eval_i, d, eval_calls>>

\* the run is killed: the workers die where they are
SonifyBatchKill ==
    /\ son_pc = "pool"
    /\ son_pc' = "killed"
    /\ interrupts' = interrupts + 1
    /\ task' = [s \in Scenarios |-> "none"]
    /\ UNCHANGED <<pipe_vars, fails, runs, wav, son_calls, errs_pkl, eval_pc, eval_i, d, eval_calls>>

\* eval_tools.py:113-114
EvalBatchStart ==
    /\ Ended(son_pc) /\ Ended(eval_pc)
    /\ runs < MaxRuns
    /\ runs' = runs + 1
    /\ eval_pc' = "loop"
    /\ eval_i' = 1
    /\ d' = {}
    /\ UNCHANGED <<pipe_vars, fails, interrupts, wav, son_pc, task, son_calls, errs_pkl, eval_calls>>

\* eval_tools.py:114-120: one iteration; an exception leaves the function
EvalBatchIter ==
    /\ eval_pc = "loop"
    /\ eval_i <= NumScenarios
    /\ eval_calls' = [eval_calls EXCEPT ![eval_i] = @ + 1]
    /\ IF eval_i \in fails
       THEN /\ eval_pc' = "raised"
            /\ UNCHANGED <<eval_i, d>>
       ELSE /\ d' = d \cup {eval_i}
            /\ eval_i' = eval_i + 1
            /\ UNCHANGED eval_pc
    /\ UNCHANGED <<pipe_vars, fails, runs, interrupts, wav, son_pc, task, son_calls, errs_pkl>>

\* eval_tools.py:123-126: open(outfile, 'wb') truncates errs.pkl
EvalBatchOpen ==
    /\ eval_pc = "loop"
    /\ eval_i > NumScenarios
    /\ eval_pc' = "save"
    /\ errs_pkl' = [state |-> "partial", keys |-> {}]
    /\ UNCHANGED <<pipe_vars, fails, runs, interrupts, wav, son_pc, task, son_calls, eval_i, d,
                   eval_calls>>

\* eval_tools.py:126: pickle.dump(d, ...)
EvalBatchDump ==
    /\ eval_pc = "save"
    /\ eval_pc' = "returned"
    /\ errs_pkl' = [state |-> "whole", keys |-> d]
    /\ UNCHANGED <<pipe_vars, fails, runs, interrupts, wav, son_pc, task, son_calls, eval_i, d,
                   eval_calls>>

\* the run is killed
EvalBatchKill ==
    /\ eval_pc \in {"loop", "save"}
    /\ eval_pc' = "killed"
    /\ interrupts' = interrupts + 1
    /\ UNCHANGED <<pipe_vars, fails, runs, wav, son_pc, task, son_calls, errs_pkl, eval_i, d,
                   eval_calls>>

(***************************************************************************)
(* Specifications.                                                         *)
(***************************************************************************)
NoBatch == fails = {} /\ BatchStart

\* any 2xN array, N in 0..MaxLen
Init ==
    /\ \E n \in 0..MaxLen : align_file \in [1..n -> Points(MaxCoord)]
    /\ PipeStart
    /\ NoBatch

\* any 2xN array whose two rows are nondecreasing, N in 0..MaxMonoLen
InitMono ==
    /\ \E n \in 0..MaxMonoLen :
          \E a \in NonDecr(n, MaxMonoCoord), b \in NonDecr(n, MaxMonoCoord) :
             align_file = [i \in 1..n |-> <<a[i], b[i]>>]
    /\ PipeStart
    /\ NoBatch

InitBatch == align_file = <<>> /\ PipeStart /\ fails \in SUBSET Scenarios /\ BatchStart

Next ==
    \/ CallFilter
    \/ \E k \in Downsamples, h \in HopLens : CallGetPreprocessedWp(k, h)
    \/ \E k \in Downsamples, h \in HopLens : CallSonifyWithTSMSync(k, h)
    \/ CallCalcAlignErrorsSingle

NextBatch ==
    \/ SonifyBatchStart
    \/ \E s \in Scenarios : TaskStart(s)
    \/ \E s \in Scenarios : TaskCompute(s)
    \/ \E s \in Scenarios : TaskWritten(s)
    \/ SonifyBatchEnd
    \/ SonifyBatchKill
    \/ EvalBatchStart
    \/ EvalBatchIter
    \/ EvalBatchOpen
    \/ EvalBatchDump
    \/ EvalBatchKill

Spec == Init /\ [][Next]_vars
SpecMono == InitMono /\ [][Next]_vars
SpecBatch == InitBatch /\ [][NextBatch]_vars


(***************************************************************************)
(* The claims.  Their vocabulary is stated on its own, by index sets, not  *)
(* by the loops and slices above.                                          *)
(***************************************************************************)
N == Len(align_file)

\* step i -> i+1 of p moves in both coordinates
IsDiagonalStep(p, i) == p[i][1] # p[i + 1][1] /\ p[i][2] # p[i + 1][2]

\* the j-th smallest element of a set of integers
Nth(S, j) == CHOOSE i \in S : Cardinality({m \in S : m <= i}) = j

\* the points that start a diagonal step, in order, then the last point
DiagonalStartsThenLast(p) ==
    LET K == {i \in 1..(Len(p) - 1) : IsDiagonalStep(p, i)}
    IN  [j \in 1..(Cardinality(K) + 1) |->
            IF j <= Cardinality(K) THEN p[Nth(K, j)] ELSE p[Len(p)]]

\* first point, interior points at interior positions 0, k, 2k, ..., last point
EveryKthInterior(p, k) ==
    LET K == {i \in 2..(Len(p) - 1) : (i - 2) % k = 0}
    IN  [j \in 1..(Cardinality(K) + 2) |->
            IF j = 1 THEN p[1]
            ELSE IF j = Cardinality(K) + 2 THEN p[Len(p)]
            ELSE p[Nth(K, j - 1)]]

Swapped(p) == [i \in 1..Len(p) |-> <<p[i][2], p[i][1]>>]

NonDecreasingIn(p, c) == \A i \in 1..(Len(p) - 1) : p[i][c] <= p[i + 1][c]
StrictlyIncreasing(row) == \A i \in 1..(Len(row) - 1) : row[i] < row[i + 1]
CeilDiv(a, b) == (a + b - 1) \div b

\* the path as loaded by the call in progress
Loaded == LoadWp(align_file, call.hop_len)

\* the first point of p that starts a diagonal step, the last point if none does
FirstDiagonalStart(p) ==
    LET K == {i \in 1..(Len(p) - 1) : IsDiagonalStep(p, i)}
    IN  IF K = {} THEN p[Len(p)] ELSE p[Nth(K, 1)]

(* C1: for every path of N >= 2 points the filter returns, in order,       *)
(* exactly the points i in 0..N-2 whose successor differs in both          *)
(* coordinates, followed by point N-1.                                     *)
C1_FilterKeepsDiagonalStarts ==
    (call.op = "filter" /\ N >= 2) =>
        ret = Ok(DiagonalStartsThenLast(align_file))

\* a filter call that kept a point, dropped one, and appended a last point
\* that ends a degenerate step
C1_Witness ==
    /\ call.op = "filter" /\ N = MaxLen
    /\ ~IsDiagonalStep(align_file, N - 1)
    /\ \E i \in 1..(N - 2) : IsDiagonalStep(align_file, i)
    /\ Len(ret.val) = 3

(* C2: for every path of N >= 2 points nondecreasing in both coordinates,  *)
(* the filter's output has strictly increasing t1 between every two        *)
(* consecutive points, the final pair included.                            *)
C2_FilteredT1StrictlyIncreasing ==
    (/\ call.op = "filter" /\ N >= 2
     /\ NonDecreasingIn(align_file, 1) /\ NonDecreasingIn(align_file, 2)) =>
        ret.err = "" /\ StrictlyIncreasing(Row0(ret.val))

\* a nondecreasing path with stalls, ending in a degenerate step, whose
\* output still has three points
C2_Witness ==
    /\ call.op = "filter" /\ N >= 4
    /\ ~IsDiagonalStep(align_file, N - 1)
    /\ \E i \in 1..(N - 2) : align_file[i][1] = align_file[i + 1][1]
    /\ Len(ret.val) >= 3

(* C3 as claimed: for every raw path of N >= 2 points and every factor     *)
(* k >= 1, the first and the last point of the output of the filter, of    *)
(* the downsampler and of their composition run before time-scaling equal  *)
(* the first and the last point of the raw path.                           *)
C3_EndpointsPreserved ==
    /\ (call.op = "filter" /\ N >= 2) =>
          ret.val[1] = align_file[1] /\ ret.val[Len(ret.val)] = align_file[N]
    /\ (call.op = "get_preprocessed_wp" /\ N >= 2) =>
          ret.val[1] = Loaded[1] /\ ret.val[Len(ret.val)] = Loaded[N]
    /\ (call.op = "sonifyWithTSMSync" /\ N >= 2) =>
          wp[1] = Loaded[1] /\ wp[Len(wp)] = Loaded[N]

(* C3 as amended: the last point of the raw path is the last point of the  *)
(* output of the filter, of the downsampler and of the composition run     *)
(* before time-scaling; the downsampler also keeps the first point; the    *)
(* first point out of the filter, and out of the composition, which ends   *)
(* with the filter, is the first point of its input that starts a diagonal *)
(* step (the last point if none does), so the raw first point survives     *)
(* them whenever the first step is diagonal.                               *)
C3_LastPointPreserved ==
    /\ (call.op = "filter" /\ N >= 2) =>
          /\ ret.err = ""
          /\ ret.val[Len(ret.val)] = align_file[N]
          /\ ret.val[1] = FirstDiagonalStart(align_file)
          /\ IsDiagonalStep(align_file, 1) => ret.val[1] = align_file[1]
    /\ (call.op = "get_preprocessed_wp" /\ N >= 2) =>
          /\ ret.err = ""
          /\ ret.val[1] = Loaded[1]
          /\ ret.val[Len(ret.val)] = Loaded[N]
    /\ (call.op = "sonifyWithTSMSync" /\ N >= 2) =>
          /\ ret.err = ""
          /\ wp[Len(wp)] = Loaded[N]
          /\ wp[1] = FirstDiagonalStart(EveryKthInterior(Loaded, call.downsample))
          /\ IsDiagonalStep(EveryKthInterior(Loaded, call.downsample), 1) =>
                wp[1] = Loaded[1]

\* a sonification whose path lost the raw first point and kept the last
C3_Witness ==
    /\ call.op = "sonifyWithTSMSync" /\ N >= 3
    /\ call.hop_len # None /\ call.downsample > 1
    /\ wp[1] # Loaded[1]
    /\ wp[Len(wp)] = Loaded[N]
    /\ Len(wp) >= 2

(* C4 as claimed: for every path of N >= 2 points, no monotonicity         *)
(* assumed, the filter never emits two consecutive points that share both  *)
(* coordinates.                                                            *)
C4_NoRepeatedPoint ==
    (call.op = "filter" /\ N >= 2) =>
        \A j \in 1..(Len(ret.val) - 1) : ret.val[j] # ret.val[j + 1]

(* C4 as amended: for every path of N >= 2 points that is nondecreasing in *)
(* at least one of its two coordinates, the filter never emits two         *)
(* consecutive points that share both coordinates, the pair formed by the  *)
(* last kept interior point and the appended final point included.         *)
C4_NoRepeatedPointOnMonotone ==
    (/\ call.op = "filter" /\ N >= 2
     /\ NonDecreasingIn(align_file, 1) \/ NonDecreasingIn(align_file, 2)) =>
        \A j \in 1..(Len(ret.val) - 1) : ret.val[j] # ret.val[j + 1]

\* a path nondecreasing in t1 only, whose output pairs a kept interior point
\* with the final point appended after a degenerate step
C4_Witness ==
    /\ call.op = "filter" /\ N >= 3
    /\ NonDecreasingIn(align_file, 1) /\ ~NonDecreasingIn(align_file, 2)
    /\ ~IsDiagonalStep(align_file, N - 1)
    /\ Len(ret.val) >= 2

(* C5: for every path of N >= 2 points and every factor k >= 1,            *)
(* get_preprocessed_wp returns the first point, the interior points at     *)
(* interior positions 0, k, 2k, ..., then the last point: 2 + ceil((N-2)/k)*)
(* points, and the path itself when k = 1.                                 *)
C5_DownsampleEveryKth ==
    (call.op = "get_preprocessed_wp" /\ N >= 2) =>
        /\ ret = Ok(EveryKthInterior(Loaded, call.downsample))
        /\ Len(ret.val) = 2 + CeilDiv(N - 2, call.downsample)
        /\ call.downsample = 1 => ret.val = Loaded

\* a downsampling that dropped an interior point of a path given in frames
C5_Witness ==
    /\ call.op = "get_preprocessed_wp" /\ N = MaxLen
    /\ call.downsample = 2 /\ call.hop_len # None
    /\ Len(ret.val) = 3
    /\ align_file[2] # align_file[3]

C7_InterpDomainStrictlyIncreasing ==
    (/\ call.op = "calcAlignErrors_single" /\ N >= 2
     /\ NonDecreasingIn(align_file, 1) /\ NonDecreasingIn(align_file, 2)) =>
        \A c \in 1..Len(interp_calls) : StrictlyIncreasing(interp_calls[c].xp)

(* C9: a loaded path with fewer than 2 points is a fatal input error: the  *)
(* call ends in an error and produces no output path, no time-scaling call *)
(* and no error sequence.                                                  *)
C9_ShortPathIsFatal ==
    (call.op # "none" /\ N < 2) =>
        /\ ret.err # ""
        /\ ret.val = <<>>
        /\ tsm_calls = <<>>
        /\ interp_calls = <<>>

(* C8: in a batch run the failure of one scenario does not abort its       *)
(* siblings: when the run has ended, every other scenario has been         *)
(* processed and its result recorded (errs.pkl) or written (its .wav).     *)
C8_FailureIsolation ==
    /\ eval_pc \in {"returned", "raised"} =>
          \A s \in Scenarios \ fails :
             /\ eval_calls[s] >= 1
             /\ errs_pkl.state = "whole" /\ s \in errs_pkl.keys
    /\ son_pc \in {"returned", "raised"} =>
          \A s \in Scenarios \ fails : wav[s] # "absent"

(* C10 as claimed: batch runs are resumable and idempotent: a scenario     *)
(* whose output already exists is not recomputed and its file is left      *)
(* unchanged, and after any sequence of possibly interrupted runs followed *)
(* by one complete run the outputs are those of a single complete run.     *)
C10_ResumableIdempotent ==
    [][/\ \A s \in Scenarios :
             (wav[s] # "absent" /\ task[s] # "writing") =>
                 son_calls'[s] = son_calls[s] /\ wav'[s] = wav[s]
       /\ \A s \in Scenarios :
             (errs_pkl.state = "whole" /\ s \in errs_pkl.keys) =>
                 eval_calls'[s] = eval_calls[s]
       /\ son_pc' = "returned" => \A s \in Scenarios : wav'[s] = "whole"
       /\ eval_pc' = "returned" => errs_pkl' = [state |-> "whole", keys |-> Scenarios]
      ]_vars

(* C10 as amended: sonifyWithTSMSync_batch is resumable: a scenario whose  *)
(* output file exists when its task starts is skipped, sonifyWithTSMSync   *)
(* is not called for it and the file is left as it is, whole or not; a     *)
(* scenario without an output file is processed and its task writes its    *)
(* own file only; for any task order and worker count a run that returns   *)
(* leaves every scenario with an output file, and each file is the         *)
(* complete output unless a killed run left it incomplete.                 *)
(* calcAlignErrors_batch skips nothing: every run calls                    *)
(* calcAlignErrors_single again on each scenario it reaches, whatever      *)
(* errs.pkl holds, and a run that returns rewrites errs.pkl with every     *)
(* scenario.                                                               *)
C10_SonifyResumableEvalRecomputes ==
    [][/\ \A s \in Scenarios :
             (wav[s] # "absent" /\ task[s] # "writing") =>
                 son_calls'[s] = son_calls[s] /\ wav'[s] = wav[s]
       /\ \A s \in Scenarios :
             wav'[s] # wav[s] =>
                 /\ task[s] \in {"running", "writing"}
                 /\ \A t \in Scenarios \ {s} : wav'[t] = wav[t]
       /\ \A s \in Scenarios :
             (task[s] = "queued" /\ task'[s] \notin {"queued", "none"}
              /\ wav[s] = "absent") =>
                 son_calls'[s] = son_calls[s] + 1 /\ task'[s] = "running"
       /\ son_pc' = "returned" =>
             \A s \in Scenarios :
                /\ wav'[s] # "absent"
                /\ interrupts' = 0 => wav'[s] = "whole"
       /\ (eval_pc = "loop" /\ eval_i' = eval_i + 1) =>
             eval_calls'[eval_i] = eval_calls[eval_i] + 1
       /\ eval_pc' = "returned" =>
             /\ errs_pkl' = [state |-> "whole", keys |-> Scenarios]
             /\ \A s \in Scenarios : eval_calls'[s] >= 1
      ]_vars

\* a run that returned after a killed one: it skipped a whole file and an
\* incomplete one, and processed the scenario that had no file
C10_Witness ==
    /\ son_pc = "returned" /\ runs = 2 /\ interrupts = 1
    /\ \E s \in Scenarios : wav[s] = "whole" /\ son_calls[s] = 1
    /\ \E s \in Scenarios : wav[s] = "partial" /\ son_calls[s] = 1
    /\ \E s \in Scenarios : wav[s] = "whole" /\ son_calls[s] = 2

=============================================================================
